---- MODULE Spec2Model ----
(***************************************************************************)
(* DicomDeidentifier (grand_challenge_dicom_de_identifier/deidentifier.py) *)
(* as a state machine.  Python strings are sequences of string tokens, so  *)
(* that concatenation (f-strings, the "; " join) is sequence               *)
(* concatenation and "" is <<>>.  A dict is a function; a missing key is a *)
(* key outside its DOMAIN.                                                 *)
(*                                                                         *)
(* Spec: one caller hands records to two engines, one call at a time.      *)
(* SpecWorkers: two workers, each with a record, call the engines under    *)
(* one mutex of their own.  SpecCallback: the element callback is called   *)
(* once more on an element the walk has deleted.                           *)
(***************************************************************************)
EXTENDS Integers, Sequences, FiniteSets, TLC

----------------------------------------------------------------------------
(* Bounds of the model *)

\* secrets.randbelow(maximum) inside generate_uid draws from 0..MaxRand-1
MaxRand == 2
\* a call is started only while the stores and the values of the record that
\* are new to the engine fit in MaxStore keys
MaxStore == 2
\* datetime.now() reads one of the times 0..MaxClock
MaxClock == 1
\* one record is handed to deidentify_dataset at most MaxRuns times
MaxRuns == 2

----------------------------------------------------------------------------
(* models.ActionKind and the values the tests use *)

REMOVE == "X"
KEEP == "K"
REJECT == "R"
UID == "U"
REPLACE == "D"
REPLACE_0 == "Z"
ActionKind == {REMOVE, KEEP, REJECT, UID, REPLACE, REPLACE_0}
NOT_A_VALID_ACTION == "NOT_A_VALID_ACTION"

GRAND_CHALLENGE_ROOT_UID == "1.2.826.0.1.3680043.10.1666."

TEST_SOP_CLASS == <<"1.2.840.10008.5.1.4.1.1.2">>
OTHER_SOP_CLASS == <<"1.2.840.10008.5.1.4.1.1.128">>

\* dict.get(key, default)
Get(d, k, dflt) == IF k \in DOMAIN d THEN d[k] ELSE dflt

\* decimal rendering of the small naturals the model formats into strings
Str(n) == CASE n = 0 -> "0" [] n = 1 -> "1" [] n = 2 -> "2" [] n = 3 -> "3"
            [] n = 4 -> "4" [] OTHER -> "9"

----------------------------------------------------------------------------
(* Tags *)

\* pydicom.tag.Tag(group, element)
Tag(g, e) == g * 65536 + e
\* str(elem.tag): "(gggg,eeee)", the pair of its group and element numbers
TagStr(t) == <<t \div 65536, t % 65536>>

SOPClassUIDTag == Tag(8, 22)
ReferencedSOPClassUIDTag == Tag(8, 4432)
DeidentificationMethodTag == Tag(18, 99)
Tags == {SOPClassUIDTag, ReferencedSOPClassUIDTag, DeidentificationMethodTag}

\* an element whose value representation the data dictionary leaves open
SmallestImagePixelValueTag == Tag(40, 262)

\* the value representation of each tag in the data dictionary
VROf(t) ==
    CASE t = DeidentificationMethodTag -> "LO"
      [] t = SmallestImagePixelValueTag -> "US or SS"
      [] OTHER -> "UI"

\* the entries of VR_DUMMY_VALUES for the value representations of Tags
VR_DUMMY_VALUES ==
    [vr \in {"UI", "LO"} |->
        IF vr = "UI" THEN <<"1.2.3.4.5.6.7.8.9.0.1.2.3.4.5.6.7.8.9.0">>
        ELSE <<"DUMMY_LONG_STRING">>]

\* sorted(self._dict.keys()) of Dataset.walk
RECURSIVE Sorted(_)
Sorted(S) ==
    IF S = {} THEN <<>>
    ELSE LET m == CHOOSE x \in S : \A y \in S : x <= y
         IN <<m>> \o Sorted(S \ {m})

----------------------------------------------------------------------------
(* The procedures and records the model is run on *)

TAG_JUSTIFICATION == <<"TEST tag-specific rejection">>
CLASS_JUSTIFICATION == <<"TEST default rejection">>
TOP_JUSTIFICATION == <<"TEST default justification">>

AnyAction == ActionKind \cup {NOT_A_VALID_ACTION}

\* {"default": action} with an optional "justification"
TagRules ==
    {[default |-> a] : a \in AnyAction \ {UID}}
        \cup {[default |-> REJECT, justification |-> TAG_JUSTIFICATION]}

RuleKeys == {TagStr(t) : t \in Tags}

\* the "tags" tables with one rule
TagTables == UNION {[{k} -> TagRules] : k \in RuleKeys}

\* the class procedures that remap: by class default, by tag rule, and by
\* class default with one tag rejected
UidClassProcedures ==
    {[tags |-> <<>>, default |-> UID],
     [tags |-> (TagStr(ReferencedSOPClassUIDTag) :> [default |-> UID])],
     [tags |-> (TagStr(ReferencedSOPClassUIDTag) :> [default |-> UID]),
      default |-> KEEP],
     [tags |-> (TagStr(DeidentificationMethodTag) :> [default |-> REJECT]),
      default |-> UID]}

\* {"tags": {...}} with an optional "default" and "justification": a class
\* default with no tag rule, and one tag rule over the class defaults none,
\* Keep and Reject
ClassProcedures ==
    {[tags |-> <<>>]}
        \cup {[tags |-> <<>>, default |-> a] : a \in AnyAction}
        \cup {[tags |-> <<>>, default |-> REJECT,
               justification |-> CLASS_JUSTIFICATION]}
        \cup {[tags |-> t] : t \in TagTables}
        \cup {[tags |-> t, default |-> a] :
                t \in TagTables, a \in {KEEP, REJECT}}
        \cup UidClassProcedures

\* the top-level keys "default", "justification" and "version", each optional
TopLevels ==
    {<<>>}
        \cup {[default |-> a] : a \in {REJECT, KEEP, REMOVE, NOT_A_VALID_ACTION}}
        \cup {[justification |-> TOP_JUSTIFICATION],
              [default |-> REJECT, justification |-> TOP_JUSTIFICATION],
              [default |-> KEEP, version |-> "2024a"]}

\* procedures that exercise the resolution of the class
ResolveProcedures ==
    TopLevels
        \cup {top @@ [sopClass |-> c] :
                top \in TopLevels,
                c \in {(OTHER_SOP_CLASS :> [tags |-> <<>>]),
                       (TEST_SOP_CLASS :> [tags |-> <<>>]),
                       (TEST_SOP_CLASS :> [tags |-> <<>>, default |-> KEEP])}}

\* procedures that exercise the walk of a matched record
WalkProcedures ==
    {[sopClass |-> (TEST_SOP_CLASS :> cp)] : cp \in ClassProcedures}

Procedures == ResolveProcedures \cup WalkProcedures

\* the values an element of a record handed to the engine may carry
ValuesOf(t) ==
    CASE t = SOPClassUIDTag -> {TEST_SOP_CLASS, OTHER_SOP_CLASS}
      [] t = ReferencedSOPClassUIDTag -> {TEST_SOP_CLASS, OTHER_SOP_CLASS}
      [] t = SmallestImagePixelValueTag -> {<<"0">>}
      [] OTHER -> {<<"T">>}

Elements(t) == {[VR |-> VROf(t), value |-> v] : v \in ValuesOf(t)}

\* the records over Tags: the elements they hold, keyed by tag
PlainDatasets ==
    UNION {{d \in [S -> UNION {Elements(t) : t \in S}] :
               \A t \in S : d[t] \in Elements(t)} : S \in SUBSET Tags}

\* a parsed record: a record over Tags, or one with a class identifier, no
\* second identifier and an element of an open value representation
Datasets ==
    PlainDatasets
        \cup {(SmallestImagePixelValueTag :> e) @@ d :
                e \in Elements(SmallestImagePixelValueTag),
                d \in {p \in PlainDatasets :
                          /\ SOPClassUIDTag \in DOMAIN p
                          /\ ReferencedSOPClassUIDTag \notin DOMAIN p}}

Engines == {1, 2}

\* the readings of datetime.now()
Timestamps == 0 .. MaxClock

\* pydicom.uid.generate_uid(prefix=GRAND_CHALLENGE_ROOT_UID): the prefix and
\* a random number below the maximum
generate_uid == {<<GRAND_CHALLENGE_ROOT_UID, Str(n)>> : n \in 0 .. MaxRand - 1}

----------------------------------------------------------------------------
(* State *)

VARIABLES
    procedure,            \* self.procedure, the same literal for both engines
    uid_map,              \* self.uid_map of each engine
    dataset,              \* the record in the caller's hands
    runs,                 \* calls made on this record
    pc,                   \* "idle", or "walk" inside Dataset.walk
    self,                 \* the engine of the call in progress
    taglist,              \* the tags Dataset.walk has still to visit
    sop_class_procedure,  \* the local of deidentify_dataset
    outcome,              \* how the last call ended
    entry,                \* the record as it was handed to the last call
    visited,              \* the elements the callback was called on
    remapped,             \* the applications of the UID action in the call
    minted,               \* how often generate_uid returned each identifier
    issued,               \* every pseudonym written into a record, and for whom
    lock,                 \* the worker that holds the callers' mutex, 0 if none
    records               \* the record of each worker, as given and as it is

vars == <<procedure, uid_map, dataset, runs, pc, self, taglist,
          sop_class_procedure, outcome, entry, visited, remapped, minted,
          issued, lock, records>>

NoOutcome == [kind |-> "none", message |-> <<>>]

\* the engines as constructed, no call made
InitEngines ==
    /\ uid_map = [e \in Engines |-> <<>>]
    /\ runs = 0
    /\ pc = "idle"
    /\ self = 1
    /\ taglist = <<>>
    /\ sop_class_procedure = <<>>
    /\ outcome = NoOutcome
    /\ visited = <<>>
    /\ remapped = {}
    /\ minted = [e \in Engines |-> [uid \in generate_uid |-> 0]]
    /\ issued = {}
    /\ lock = 0

\* one caller, with a record in its hands
Init ==
    /\ procedure \in Procedures
    /\ InitEngines
    /\ dataset \in Datasets
    /\ entry = dataset
    /\ records = <<>>

----------------------------------------------------------------------------
(* Exceptions *)

\* exceptions.RejectedDICOMFileError(justification=...)
RejectedDICOMFileError(justification) ==
    [kind |-> "RejectedDICOMFileError",
     message |-> IF justification = <<>>
                 THEN <<"no justification provided">>
                 ELSE justification]

NotImplementedError(message) ==
    [kind |-> "NotImplementedError", message |-> message]

\* Dataset.__getattr__ on a keyword the record does not hold
AttributeError ==
    [kind |-> "AttributeError", message |-> <<"SOPClassUID">>]

\* dict.__getitem__ and dict.__delitem__ on a tag the record does not hold
KeyError(t) == [kind |-> "KeyError", message |-> <<TagStr(t)>>]

Done == [kind |-> "Done", message |-> <<>>]

----------------------------------------------------------------------------
(* deidentifier.py *)

\* sop_class_default with Keep as the default when none is specified
sop_class_default_implicit_keep(proc, ds) ==
    LET default == Get(proc, "default", KEEP)
    IN  IF default = REJECT
        THEN IF SOPClassUIDTag \in DOMAIN ds
             THEN [raise |-> RejectedDICOMFileError(
                      Get(proc, "justification",
                          <<"SOP Class ">> \o ds[SOPClassUIDTag].value
                              \o <<" is not supported">>))]
             ELSE [raise |-> AttributeError]
        ELSE IF default = KEEP
             THEN [return |-> [default |-> KEEP, tags |-> <<>>]]
             ELSE [raise |-> NotImplementedError(
                      <<"Default action ", default, " not implemented">>)]

\* sop_class_default with every default other than Reject taken as Keep
sop_class_default_else_keep(proc, ds) ==
    LET default == Get(proc, "default", REJECT)
    IN  IF default = REJECT
        THEN IF SOPClassUIDTag \in DOMAIN ds
             THEN [raise |-> RejectedDICOMFileError(
                      Get(proc, "justification",
                          <<"SOP Class ">> \o ds[SOPClassUIDTag].value
                              \o <<" is not supported">>))]
             ELSE [raise |-> AttributeError]
        ELSE [return |-> [default |-> KEEP, tags |-> <<>>]]

\* the branch of _get_sop_class_procedure taken on KeyError
sop_class_default(proc, ds) ==
    LET default == Get(proc, "default", REJECT)
    IN  IF default = REJECT
        THEN IF SOPClassUIDTag \in DOMAIN ds
             THEN [raise |-> RejectedDICOMFileError(
                      Get(proc, "justification",
                          <<"SOP Class ">> \o ds[SOPClassUIDTag].value
                              \o <<" is not supported">>))]
             ELSE [raise |-> AttributeError]
        ELSE IF default = KEEP
             THEN [return |-> [default |-> KEEP, tags |-> <<>>]]
             ELSE [raise |-> NotImplementedError(
                      <<"Default action ", default, " not implemented">>)]

\* _get_sop_class_procedure that hands an unmatched record to the walk, with
\* the global default as the default of its class
get_sop_class_procedure_inherit(proc, ds) ==
    IF SOPClassUIDTag \notin DOMAIN ds
    THEN [raise |-> AttributeError]
    ELSE IF "sopClass" \in DOMAIN proc
            /\ ds[SOPClassUIDTag].value \in DOMAIN proc.sopClass
         THEN [return |-> proc.sopClass[ds[SOPClassUIDTag].value]]
         ELSE [return |-> [tags |-> <<>>,
                           default |-> Get(proc, "default", REJECT),
                           justification |->
                               Get(proc, "justification", <<>>)]]

\* _get_sop_class_procedure: the class procedure, or the exception raised
get_sop_class_procedure(proc, ds) ==
    IF "sopClass" \in DOMAIN proc
    THEN IF SOPClassUIDTag \in DOMAIN ds
         THEN IF ds[SOPClassUIDTag].value \in DOMAIN proc.sopClass
              THEN [return |-> proc.sopClass[ds[SOPClassUIDTag].value]]
              ELSE sop_class_default(proc, ds)
         ELSE [raise |-> AttributeError]
    ELSE sop_class_default(proc, ds)

\* default_action with the class default never read
default_action_remove(sop) ==
    [default |-> REMOVE, justification |-> Get(sop, "justification", <<>>)]

\* default_action with the global default for a class that names none
default_action_global(sop) ==
    [default |-> Get(sop, "default", Get(procedure, "default", REJECT)),
     justification |-> Get(sop, "justification", <<>>)]

\* the default_action argument deidentify_dataset binds for the walk
default_action(sop) ==
    [default |-> Get(sop, "default", REMOVE),
     justification |-> Get(sop, "justification", <<>>)]

\* resolve with the justification always taken from the class default
resolve_class_justification(action_lookup, dflt, t) ==
    [action |-> IF TagStr(t) \in DOMAIN action_lookup
                THEN action_lookup[TagStr(t)].default ELSE dflt.default,
     justification |-> dflt.justification]

\* resolve with the tag rules never consulted
resolve_default_only(action_lookup, dflt, t) ==
    [action |-> dflt.default, justification |-> dflt.justification]

\* the (action, justification) _handle_element resolves for a tag
resolve(action_lookup, dflt, t) ==
    IF TagStr(t) \in DOMAIN action_lookup
    THEN [action |-> action_lookup[TagStr(t)].default,
          justification |-> Get(action_lookup[TagStr(t)], "justification", <<>>)]
    ELSE [action |-> dflt.default, justification |-> dflt.justification]

\* branch with no final else: an unknown action falls through
branch_unknown_pass(action) ==
    CASE action = REMOVE -> "del"
      [] action = REJECT -> "reject"
      [] action = UID -> "uid"
      [] action \in {REPLACE, REPLACE_0} -> "dummy"
      [] OTHER -> "pass"

\* branch with the two replace actions served by the pseudonym store
branch_replace_as_uid(action) ==
    CASE action = REMOVE -> "del"
      [] action = KEEP -> "pass"
      [] action = REJECT -> "reject"
      [] action \in {UID, REPLACE, REPLACE_0} -> "uid"
      [] OTHER -> "not implemented"

\* the if/elif chain of _handle_element
branch(action) ==
    CASE action = REMOVE -> "del"
      [] action = KEEP -> "pass"
      [] action = REJECT -> "reject"
      [] action = UID -> "uid"
      [] action \in {REPLACE, REPLACE_0} -> "dummy"
      [] OTHER -> "not implemented"

\* uid_map_lookup of a store that calls the factory on every access
uid_map_lookup_always_new(map, e, value) ==
    {[uid |-> u, minted |-> TRUE] : u \in generate_uid}

\* uid_map_lookup of a store whose factory returns one identifier, generated
\* once, for every missing key
uid_map_lookup_one_default(map, e, value) ==
    IF value \in DOMAIN map[e]
    THEN {[uid |-> map[e][value], minted |-> FALSE]}
    ELSE IF DOMAIN map[e] # {}
         THEN {[uid |-> map[e][k], minted |-> FALSE] : k \in DOMAIN map[e]}
         ELSE {[uid |-> u, minted |-> TRUE] : u \in generate_uid}

\* self.uid_map[value] of the defaultdict: the identifiers it may return, and
\* whether the factory was called for them
uid_map_lookup(map, e, value) ==
    IF value \in DOMAIN map[e]
    THEN {[uid |-> map[e][value], minted |-> FALSE]}
    ELSE {[uid |-> u, minted |-> TRUE] : u \in generate_uid}

\* the walk over the live list of tags, by position: after a visit that
\* deleted its element the next tag has moved into the place just visited and
\* is passed over
remaining_live(tl) ==
    IF Head(tl) \notin DOMAIN dataset' /\ Len(tl) >= 2
    THEN Tail(Tail(tl))
    ELSE Tail(tl)

\* the tags Dataset.walk has still to visit after the first of tl, which are
\* those of the list it made before the first visit
remaining(tl) == Tail(tl)

\* _get_dummy_value with an empty value for a value representation the table
\* does not hold
get_dummy_value_fallback(vr) ==
    IF vr \notin DOMAIN VR_DUMMY_VALUES
    THEN [return |-> <<>>]
    ELSE [return |-> VR_DUMMY_VALUES[vr]]

\* _get_dummy_value: the placeholder, or the exception raised
get_dummy_value(vr) ==
    IF vr \notin DOMAIN VR_DUMMY_VALUES
    THEN [raise |-> NotImplementedError(<<"Unsupported DICOM VR: ", vr>>)]
    ELSE [return |-> VR_DUMMY_VALUES[vr]]

\* del dataset[elem.tag] with the deletion put off to the end of the walk
DelItem_deferred(ds, t) == ds

\* del dataset[elem.tag], on a record that holds the tag
DelItem(ds, t) == [k \in DOMAIN ds \ {t} |-> ds[k]]

\* uid_map_store on a store that is one attribute of the class
uid_map_store_shared(map, e, value, uid) ==
    [o \in DOMAIN map |-> (value :> uid) @@ map[o]]

\* uid_map_store of a plain dict read with get(value, generate_uid()): the
\* identifier is returned and not stored
uid_map_store_forgetful(map, e, value, uid) == map

\* uid_map_store of a store that holds the latest entry only
uid_map_store_evicting(map, e, value, uid) ==
    [map EXCEPT ![e] = (value :> uid)]

\* uid_map after self.uid_map[value] returned uid
uid_map_store(map, e, value, uid) ==
    [map EXCEPT ![e] = (value :> uid) @@ map[e]]

\* the method text of set_deidentification_method_tag
method_text(proc, timestamp) ==
    <<"De-identified by Python DICOM de-identifier using procedure version ",
      Get(proc, "version", "unknown"), " on ", Str(timestamp), ".">>

\* set_deidentification_method_tag that extends a provenance element and never
\* creates one
set_deidentification_method_tag_update_only(proc, ds, timestamp) ==
    IF DeidentificationMethodTag \in DOMAIN ds
    THEN (DeidentificationMethodTag :>
            [VR |-> "LO",
             value |-> IF ds[DeidentificationMethodTag].value # <<>>
                       THEN ds[DeidentificationMethodTag].value \o <<"; ">>
                                \o method_text(proc, timestamp)
                       ELSE method_text(proc, timestamp)]) @@ ds
    ELSE ds

\* set_deidentification_method_tag
set_deidentification_method_tag(proc, ds, timestamp) ==
    LET existing_method ==
            IF DeidentificationMethodTag \in DOMAIN ds
            THEN ds[DeidentificationMethodTag].value ELSE <<>>
        new_method ==
            IF existing_method # <<>>
            THEN existing_method \o <<"; ">> \o method_text(proc, timestamp)
            ELSE method_text(proc, timestamp)
    IN  (DeidentificationMethodTag :> [VR |-> "LO", value |-> new_method]) @@ ds

----------------------------------------------------------------------------
(* Actions *)

\* the caller hands another parsed record to the engines
LoadRecord ==
    /\ pc = "idle"
    /\ \E ds \in Datasets :
          /\ dataset' = ds
          /\ entry' = ds
    /\ runs' = 0
    /\ outcome' = NoOutcome
    /\ visited' = <<>>
    /\ remapped' = {}
    /\ UNCHANGED <<procedure, uid_map, pc, self, taglist, sop_class_procedure,
                   minted, issued, lock, records>>

\* the number of entries the stores hold
StoreSize ==
    Cardinality({k \in Engines \X UNION {DOMAIN uid_map[e] : e \in Engines} :
                    k[2] \in DOMAIN uid_map[k[1]]})

\* the values of the record in hand that the store of engine e does not hold
NewValues(e) ==
    {dataset[t].value : t \in DOMAIN dataset} \ DOMAIN uid_map[e]

\* deidentify_dataset up to the start of the walk
Deidentify(e) ==
    /\ pc = "idle"
    /\ runs < MaxRuns
    /\ StoreSize + Cardinality(NewValues(e)) <= MaxStore
    /\ runs' = runs + 1
    /\ self' = e
    /\ entry' = dataset
    /\ visited' = <<>>
    /\ remapped' = {}
    /\ LET r == get_sop_class_procedure(procedure, dataset)
       IN  IF "raise" \in DOMAIN r
           THEN /\ outcome' = r.raise
                /\ UNCHANGED <<pc, taglist, sop_class_procedure>>
           ELSE /\ outcome' = NoOutcome
                /\ pc' = "walk"
                /\ taglist' = Sorted(DOMAIN dataset)
                /\ sop_class_procedure' = r.return
    /\ UNCHANGED <<procedure, uid_map, dataset, minted, issued, lock, records>>

\* the walk ends with the exception exc
Raise(exc) ==
    /\ outcome' = exc
    /\ pc' = "idle"
    /\ taglist' = <<>>

\* _handle_element(dataset, elem, ...) on the element elem of tag t, which the
\* record holds, or held before it was deleted; rest is what is left to visit
\* when the callback returns
Callback(t, elem, rest) ==
    LET r == resolve(sop_class_procedure.tags,
                     default_action(sop_class_procedure), t)
        action == r.action
        held == t \in DOMAIN dataset
        Continue == /\ taglist' = rest
                    /\ UNCHANGED <<pc, outcome>>
    IN  /\ visited' = Append(visited, [tag |-> t, action |-> action])
        /\ CASE branch(action) = "del" ->
                 IF held
                 THEN /\ dataset' = DelItem(dataset, t)
                      /\ Continue
                      /\ UNCHANGED <<uid_map, remapped, minted, issued>>
                 ELSE /\ Raise(KeyError(t))
                      /\ UNCHANGED <<dataset, uid_map, remapped, minted, issued>>
             [] branch(action) = "pass" ->
                 /\ UNCHANGED <<dataset, uid_map, remapped, minted, issued>>
                 /\ Continue
             [] branch(action) = "reject" ->
                 /\ Raise(RejectedDICOMFileError(r.justification))
                 /\ UNCHANGED <<dataset, uid_map, remapped, minted, issued>>
             [] branch(action) = "uid" ->
                 /\ \E got \in uid_map_lookup(uid_map, self, elem.value) :
                       /\ uid_map' = uid_map_store(uid_map, self,
                                                   elem.value, got.uid)
                       /\ dataset' = IF held
                                     THEN [dataset EXCEPT ![t].value = got.uid]
                                     ELSE dataset
                       /\ remapped' = remapped \cup
                             {[engine |-> self, tag |-> t,
                               original |-> elem.value,
                               pseudonym |-> got.uid,
                               known |-> ~got.minted]}
                       /\ issued' = issued \cup
                             {[engine |-> self, worker |-> lock,
                               original |-> elem.value,
                               pseudonym |-> got.uid]}
                       /\ minted' =
                             IF got.minted
                             THEN [minted EXCEPT ![self][got.uid] = @ + 1]
                             ELSE minted
                 /\ Continue
             [] branch(action) = "dummy" ->
                 IF "return" \in DOMAIN get_dummy_value(elem.VR)
                 THEN /\ dataset' =
                            IF held
                            THEN [dataset EXCEPT
                                    ![t].value = get_dummy_value(elem.VR).return]
                            ELSE dataset
                      /\ Continue
                      /\ UNCHANGED <<uid_map, remapped, minted, issued>>
                 ELSE /\ Raise(get_dummy_value(elem.VR).raise)
                      /\ UNCHANGED <<dataset, uid_map, remapped, minted, issued>>
             [] OTHER ->
                 /\ Raise(NotImplementedError(
                        <<"Action ", action, " not implemented">>))
                 /\ UNCHANGED <<dataset, uid_map, remapped, minted, issued>>
        /\ UNCHANGED <<procedure, runs, self, sop_class_procedure, entry, lock,
                       records>>

\* one round of the loop of Dataset.walk: data_element = self[tag], and the
\* callback on it
HandleElement ==
    /\ pc = "walk"
    /\ taglist # <<>>
    /\ LET t == Head(taglist)
       IN  IF t \in DOMAIN dataset
           THEN Callback(t, dataset[t], remaining(taglist))
           ELSE /\ Raise(KeyError(t))
                /\ UNCHANGED <<procedure, uid_map, dataset, runs, self,
                               sop_class_procedure, entry, visited, remapped,
                               minted, issued, lock, records>>

\* the walk is over: set_deidentification_method_tag, and the call returns
Finalize ==
    /\ pc = "walk"
    /\ taglist = <<>>
    /\ \E timestamp \in Timestamps :
          dataset' = set_deidentification_method_tag(procedure, dataset,
                                                     timestamp)
    /\ outcome' = Done
    /\ pc' = "idle"
    /\ UNCHANGED <<procedure, uid_map, runs, self, taglist,
                   sop_class_procedure, entry, visited, remapped, minted,
                   issued, lock, records>>

Next ==
    \/ LoadRecord
    \/ \E e \in Engines : Deidentify(e)
    \/ HandleElement
    \/ Finalize

Spec == Init /\ [][Next]_vars

----------------------------------------------------------------------------
(* Several workers that call the engines under one mutex of their own *)

Workers == {1, 2}

\* what a worker holds: the record as it was given and as it is now, and how
\* its call ended
NewRecord(ds) == [given |-> ds, ds |-> ds, outcome |-> NoOutcome, runs |-> 0]

\* the records of the workers: that of the second worker is a copy of that of
\* the first, or differs from it in the value of one element
WorkerRecords ==
    {r \in [Workers -> Datasets] :
        /\ DOMAIN r[2] = DOMAIN r[1]
        /\ \A t \in DOMAIN r[1] \ {ReferencedSOPClassUIDTag} :
              r[2][t] = r[1][t]}

InitWorkers ==
    /\ procedure \in Procedures
    /\ InitEngines
    /\ dataset = <<>>
    /\ entry = <<>>
    /\ \E r \in WorkerRecords : records = [w \in Workers |-> NewRecord(r[w])]

\* worker w takes the mutex and picks up its record
Acquire(w) ==
    /\ lock = 0
    /\ pc = "idle"
    /\ records[w].runs = 0
    /\ lock' = w
    /\ dataset' = records[w].ds
    /\ entry' = records[w].ds
    /\ runs' = 0
    /\ outcome' = NoOutcome
    /\ visited' = <<>>
    /\ remapped' = {}
    /\ UNCHANGED <<procedure, uid_map, pc, self, taglist, sop_class_procedure,
                   minted, issued, records>>

\* the worker that holds the mutex calls deidentify_dataset of engine e
Call(e) ==
    /\ lock # 0
    /\ runs = 0
    /\ Deidentify(e)

\* the call of worker w has returned or raised: w puts its record down and
\* gives the mutex back
Release(w) ==
    /\ lock = w
    /\ pc = "idle"
    /\ runs > 0
    /\ records' = [records EXCEPT ![w] =
                      [given |-> @.given, ds |-> dataset,
                       outcome |-> outcome, runs |-> runs]]
    /\ lock' = 0
    /\ UNCHANGED <<procedure, uid_map, dataset, runs, pc, self, taglist,
                   sop_class_procedure, outcome, entry, visited, remapped,
                   minted, issued>>

NextWorkers ==
    \/ \E w \in Workers : Acquire(w)
    \/ \E e \in Engines : Call(e)
    \/ HandleElement
    \/ Finalize
    \/ \E w \in Workers : Release(w)

SpecWorkers == InitWorkers /\ [][NextWorkers]_vars

----------------------------------------------------------------------------
(* The callback applied to an element the record no longer holds *)

\* after a walk, _handle_element is called once more, with the arguments the
\* walk bound, on an element of the record that the walk deleted
HandleDetached ==
    /\ pc = "idle"
    /\ visited # <<>>
    /\ Len(visited) <= Cardinality(DOMAIN entry)
    /\ \E t \in DOMAIN entry \ DOMAIN dataset : Callback(t, entry[t], taglist)

NextCallback ==
    \/ \E e \in Engines : Deidentify(e)
    \/ HandleElement
    \/ Finalize
    \/ HandleDetached

SpecCallback == Init /\ [][NextCallback]_vars

----------------------------------------------------------------------------
(* What the claims speak of *)

\* a call has been made on the record in hand
Called == runs > 0

\* the record carries a class identifier
HasClass(ds) == SOPClassUIDTag \in DOMAIN ds

ClassOf(ds) == ds[SOPClassUIDTag].value

\* the class identifier of the record is a key of the procedure's sopClass
Matched(ds) ==
    /\ HasClass(ds)
    /\ "sopClass" \in DOMAIN procedure
    /\ ClassOf(ds) \in DOMAIN procedure.sopClass

\* the record carries a class identifier no class rule matches
Unmatched(ds) == HasClass(ds) /\ ~Matched(ds)

\* the tag rule of the matched class procedure for tag t, when there is one
HasTagRule(ds, t) == TagStr(t) \in DOMAIN procedure.sopClass[ClassOf(ds)].tags
TagRule(ds, t) == procedure.sopClass[ClassOf(ds)].tags[TagStr(t)]

\* the element at tag t shows the effect of action
Applied(t, action) ==
    CASE action = REMOVE -> t \notin DOMAIN dataset
      [] action = UID ->
            /\ t \in DOMAIN dataset
            /\ dataset[t].value \in generate_uid
      [] action \in {REPLACE, REPLACE_0}
            /\ entry[t].VR \in DOMAIN VR_DUMMY_VALUES ->
            /\ t \in DOMAIN dataset
            /\ dataset[t].value = VR_DUMMY_VALUES[entry[t].VR]
      [] OTHER -> t \in DOMAIN dataset /\ dataset[t] = entry[t]

----------------------------------------------------------------------------
(* Claims *)

\* C1: for a record whose class matches a class procedure, the action applied
\* to every visited element is that of the tag rule for its tag when there is
\* one and otherwise the class default (Remove when the class names none); the
\* global default decides the action only when no class procedure matches.
C1_Precedence ==
    Called =>
        \A i \in 1 .. Len(visited) :
            LET v == visited[i]
            IN  /\ IF Matched(entry)
                   THEN IF HasTagRule(entry, v.tag)
                        THEN v.action = TagRule(entry, v.tag).default
                        ELSE v.action =
                                Get(procedure.sopClass[ClassOf(entry)],
                                    "default", REMOVE)
                   ELSE /\ "default" \in DOMAIN procedure
                        /\ v.action = procedure.default
                /\ (v.tag # DeidentificationMethodTag \/ pc = "walk")
                        => Applied(v.tag, v.action)

\* a matched record walked to the end, one element under its tag rule and
\* another under a class default that differs from that rule
C1_Witness ==
    /\ outcome = Done
    /\ Matched(entry)
    /\ "default" \in DOMAIN procedure.sopClass[ClassOf(entry)]
    /\ \E i, j \in 1 .. Len(visited) :
          /\ HasTagRule(entry, visited[i].tag)
          /\ ~HasTagRule(entry, visited[j].tag)
          /\ visited[i].action # visited[j].action

\* C2: within one engine, every application of the UID action to the same
\* original value yields the same pseudonym, whichever tag or record carries
\* it: each application returns the pseudonym the store of the engine holds
\* for the value, and the pseudonym a store holds for a value never changes.
C2_SamePseudonym ==
    /\ [](\A a \in remapped :
            /\ a.original \in DOMAIN uid_map[a.engine]
            /\ a.pseudonym = uid_map[a.engine][a.original])
    /\ [][\A e \in Engines : \A v \in DOMAIN uid_map[e] :
            v \in DOMAIN uid_map'[e] /\ uid_map'[e][v] = uid_map[e][v]]_vars

\* one call remapped one value at two different tags, at the first of them to
\* a pseudonym an earlier call had stored
C2_Witness ==
    \E a, b \in remapped :
        /\ a.original = b.original /\ a.tag # b.tag
        /\ a.known /\ a.tag = visited[1].tag

\* the pseudonyms of engine e are pairwise different
Injective(e) ==
    \A k1, k2 \in DOMAIN uid_map[e] :
        k1 # k2 => uid_map[e][k1] # uid_map[e][k2]

\* C3, as claimed: in every reachable state the store of every engine maps
\* different original values to different pseudonyms.
C3_AlwaysInjective == \A e \in Engines : Injective(e)

\* C3, amended: the store of an engine maps different original values to
\* different pseudonyms unless generate_uid returned one identifier twice to
\* that engine.
C3_InjectiveUnlessRepeatedDraw ==
    \A e \in Engines :
        (\A u \in generate_uid : minted[e][u] <= 1) => Injective(e)

\* an engine holds the pseudonyms of two different values, from two draws
C3_Witness ==
    \E e \in Engines :
        /\ Cardinality(DOMAIN uid_map[e]) >= 2
        /\ \A u \in generate_uid : minted[e][u] <= 1

\* the number of identifiers generate_uid returned to engine e
RECURSIVE Sum(_, _)
Sum(f, S) ==
    IF S = {} THEN 0
    ELSE LET x == CHOOSE y \in S : TRUE IN f[x] + Sum(f, S \ {x})
Minted(e) == Sum(minted[e], generate_uid)

\* a step changes no store but that of the engine of the call in progress
OnlyOwnStore ==
    \A e \in Engines :
        uid_map'[e] # uid_map[e]
            => /\ e = self
               /\ \A o \in Engines \ {e} : uid_map'[o] = uid_map[o]

\* C4, as claimed: a value both engines have remapped has two different
\* pseudonyms, and a step of one engine never changes the store of the other.
C4_NeverSamePseudonym ==
    /\ [](\A v \in DOMAIN uid_map[1] \cap DOMAIN uid_map[2] :
             uid_map[1][v] # uid_map[2][v])
    /\ [][OnlyOwnStore]_vars

\* C4, amended: a step of one engine never changes the store of the other, and
\* every entry an engine records holds an identifier generate_uid returned to
\* that engine for it, also when the other engine already holds the value.
C4_SeparateStores ==
    [][/\ OnlyOwnStore
       /\ \A e \in Engines :
            DOMAIN uid_map'[e] # DOMAIN uid_map[e]
                => Minted(e)' = Minted(e) + 1]_vars

\* both engines have remapped one value, to two different pseudonyms
C4_Witness ==
    \E v \in DOMAIN uid_map[1] \cap DOMAIN uid_map[2] :
        uid_map[1][v] # uid_map[2][v]

\* C5: a call on a record whose class matches no class rule, under a global
\* default of Reject or none, ends in RejectedDICOMFileError; it carries the
\* top-level justification when there is one and otherwise a message that
\* names the class identifier.
C5_FailClosed ==
    (Called /\ Unmatched(entry) /\ Get(procedure, "default", REJECT) = REJECT)
        => /\ pc = "idle"
           /\ outcome.kind = "RejectedDICOMFileError"
           /\ IF "justification" \in DOMAIN procedure
              THEN outcome.message = procedure.justification
              ELSE \E i \in 1 .. Len(outcome.message) :
                      SubSeq(outcome.message, i,
                             i + Len(ClassOf(entry)) - 1) = ClassOf(entry)

\* an unmatched record rejected under a procedure that names neither a default
\* nor a justification
C5_Witness ==
    /\ Called
    /\ Unmatched(entry)
    /\ "default" \notin DOMAIN procedure
    /\ "justification" \notin DOMAIN procedure
    /\ outcome.kind = "RejectedDICOMFileError"

\* C6: a call on a record whose class matches no class rule, under a global
\* default of Keep, succeeds, and every element of the record stays with its
\* value; only the provenance element changes.
C6_KeptUnchanged ==
    (Called /\ Unmatched(entry) /\ Get(procedure, "default", REJECT) = KEEP)
        => /\ pc = "idle" => outcome = Done
           /\ pc = "walk" => outcome = NoOutcome
           /\ DOMAIN entry \subseteq DOMAIN dataset
           /\ DOMAIN dataset \subseteq DOMAIN entry \cup {DeidentificationMethodTag}
           /\ \A t \in DOMAIN entry \ {DeidentificationMethodTag} :
                 dataset[t] = entry[t]

\* an unmatched record with a second element kept, the provenance element
\* written
C6_Witness ==
    /\ Called
    /\ Unmatched(entry)
    /\ Get(procedure, "default", REJECT) = KEEP
    /\ outcome = Done
    /\ ReferencedSOPClassUIDTag \in DOMAIN entry
    /\ DeidentificationMethodTag \in DOMAIN dataset \ DOMAIN entry

\* the rule of the matched class procedure that governs tag t
RuleFor(ds, t) ==
    IF HasTagRule(ds, t) THEN TagRule(ds, t)
    ELSE procedure.sopClass[ClassOf(ds)]

\* C7: when the rule that governs a visited element says Reject, the walk ends
\* at that element in RejectedDICOMFileError with the justification of that
\* rule, or "no justification provided" when the rule has none or an empty
\* one; the justification carried is never empty.
C7_ElementReject ==
    \A i \in 1 .. Len(visited) :
        (Matched(entry)
            /\ Get(RuleFor(entry, visited[i].tag), "default", REMOVE) = REJECT)
        => /\ i = Len(visited)
           /\ pc = "idle"
           /\ outcome.kind = "RejectedDICOMFileError"
           /\ outcome.message # <<>>
           /\ LET j == Get(RuleFor(entry, visited[i].tag), "justification", <<>>)
              IN  outcome.message =
                     IF j = <<>> THEN <<"no justification provided">> ELSE j

\* the second element visited is rejected by a rule without a justification
C7_Witness ==
    /\ Len(visited) = 2
    /\ Matched(entry)
    /\ Get(RuleFor(entry, visited[2].tag), "default", REMOVE) = REJECT
    /\ "justification" \notin DOMAIN RuleFor(entry, visited[2].tag)
    /\ outcome.kind = "RejectedDICOMFileError"

\* C8: when the rule that governs an element names an action outside
\* ActionKind, the call ends in NotImplementedError at the first element
\* visited under that rule, with that element as it was; a call on a record
\* that holds such an element never succeeds.
C8_UnknownAction ==
    /\ \A i \in 1 .. Len(visited) :
          (Matched(entry)
              /\ Get(RuleFor(entry, visited[i].tag), "default", REMOVE)
                    \notin ActionKind)
          => /\ i = Len(visited)
             /\ pc = "idle"
             /\ outcome.kind = "NotImplementedError"
             /\ dataset[visited[i].tag] = entry[visited[i].tag]
    /\ (Called /\ Matched(entry)
           /\ \E t \in DOMAIN entry :
                 Get(RuleFor(entry, t), "default", REMOVE) \notin ActionKind)
          => outcome # Done

\* the second element visited is governed by a rule with an unknown action
C8_Witness ==
    /\ Len(visited) = 2
    /\ Matched(entry)
    /\ Get(RuleFor(entry, visited[2].tag), "default", REMOVE) \notin ActionKind
    /\ outcome.kind = "NotImplementedError"

\* the procedure names a global default other than Reject and Keep
OtherDefault ==
    "default" \in DOMAIN procedure /\ procedure.default \notin {REJECT, KEEP}

\* C9, as claimed: under a procedure whose global default is neither Reject
\* nor Keep no call ever succeeds, whether or not the class is matched.
C9_FatalAtConstruction == OtherDefault => outcome # Done

\* C9, amended: such a procedure is accepted at construction; a call on a
\* record whose class matches no class rule ends in NotImplementedError before
\* any element is visited and with the record as it was.
C9_FatalWhenUnmatched ==
    (OtherDefault /\ Called /\ Unmatched(entry))
        => /\ pc = "idle"
           /\ outcome.kind = "NotImplementedError"
           /\ visited = <<>>
           /\ dataset = entry

\* an unmatched record handed to an engine whose global default is Remove
C9_Witness ==
    /\ OtherDefault
    /\ procedure.default = REMOVE
    /\ Called
    /\ Unmatched(entry)
    /\ outcome.kind = "NotImplementedError"

\* C10, as claimed: a call on a record without a class identifier ends as a
\* call on an unmatched record does: in RejectedDICOMFileError under a global
\* default of Reject or none, and with every element kept under Keep.
C10_MissingClassIsNoMatch ==
    (Called /\ ~HasClass(entry))
        => /\ Get(procedure, "default", REJECT) = REJECT
                => outcome.kind = "RejectedDICOMFileError"
           /\ Get(procedure, "default", REJECT) = KEEP
                => /\ outcome.kind \in {"none", "Done"}
                   /\ \A t \in DOMAIN entry \ {DeidentificationMethodTag} :
                         t \in DOMAIN dataset /\ dataset[t] = entry[t]

\* the provenance text of record ds, "" when it holds none
ProvenanceText(ds) ==
    IF DeidentificationMethodTag \in DOMAIN ds
    THEN ds[DeidentificationMethodTag].value ELSE <<>>

\* text ends with the entry of a call under the procedure
EndsWithEntry(text) ==
    \E ts \in Timestamps :
        /\ Len(text) >= Len(method_text(procedure, ts))
        /\ SubSeq(text, Len(text) - Len(method_text(procedure, ts)) + 1,
                  Len(text)) = method_text(procedure, ts)

\* the step writes the provenance element: it leaves the entry of this call
\* alone, or joined to the text the record held
WritesProvenance ==
    /\ DeidentificationMethodTag \in DOMAIN dataset'
    /\ \E ts \in Timestamps :
          ProvenanceText(dataset') =
              IF ProvenanceText(dataset) # <<>>
              THEN ProvenanceText(dataset) \o <<"; ">>
                       \o method_text(procedure, ts)
              ELSE method_text(procedure, ts)

\* the call ended in one of the two errors of the outcome model
Failed == outcome.kind \in {"RejectedDICOMFileError", "NotImplementedError"}

\* C11: the provenance element is written by exactly one step of a call, the
\* step that ends a walk in which every element has been visited, and that
\* step ends the call in success; after a successful call the record holds
\* the provenance element, ending with the entry of the call, also when the
\* class default is Remove; no step of a call that ends in
\* RejectedDICOMFileError or NotImplementedError writes it.
C11_WrittenOnSuccess ==
    /\ [](outcome = Done
            => /\ DeidentificationMethodTag \in DOMAIN dataset
               /\ EndsWithEntry(ProvenanceText(dataset)))
    /\ [][WritesProvenance
            <=> (pc = "walk" /\ taglist = <<>> /\ outcome' = Done
                    /\ Len(visited) = Cardinality(DOMAIN entry))]_vars
    /\ [][Failed' => ~WritesProvenance]_vars

\* a matched record that held a provenance element, walked under a class
\* default of Remove with no tag rule: every element was removed and the
\* provenance element is all the record holds
C11_Witness ==
    /\ outcome = Done
    /\ Matched(entry)
    /\ procedure.sopClass[ClassOf(entry)].tags = <<>>
    /\ Get(procedure.sopClass[ClassOf(entry)], "default", REMOVE) = REMOVE
    /\ DeidentificationMethodTag \in DOMAIN entry
    /\ Cardinality(DOMAIN entry) = 3
    /\ DOMAIN dataset = {DeidentificationMethodTag}

\* C12, as claimed: after a successful call on a record that held the
\* non-empty provenance text T the provenance text is T, "; " and the entry of
\* the call, and after one on a record that held none it is the entry alone,
\* whatever rule the procedure resolves for the tag of the provenance element.
C12_PriorTextKept ==
    outcome = Done
        => \E ts \in Timestamps :
              ProvenanceText(dataset) =
                  IF ProvenanceText(entry) # <<>>
                  THEN ProvenanceText(entry) \o <<"; ">>
                           \o method_text(procedure, ts)
                  ELSE method_text(procedure, ts)

\* both workers were given the same record, and each has made its one call
TwoRuns ==
    /\ lock = 0
    /\ \A w \in Workers : records[w].runs = 1
    /\ records[1].given = records[2].given

\* no element of record ds resolves to the UID action
NoRemap(ds) ==
    Matched(ds)
        => \A t \in DOMAIN ds :
              resolve(procedure.sopClass[ClassOf(ds)].tags,
                      default_action(procedure.sopClass[ClassOf(ds)]),
                      t).action # UID

\* C13, as claimed: two runs on identical copies of a record in which no
\* element resolves to the UID action leave identical records: every element,
\* the provenance element included, has the same value in both.
C13_SameOutput ==
    (TwoRuns /\ NoRemap(records[1].given))
        => records[1].ds = records[2].ds

\* records a and b hold the same elements with the same values, but for the
\* time in the entry that ends their provenance texts
SameButTime(a, b) ==
    /\ DOMAIN a = DOMAIN b
    /\ \A t \in DOMAIN a \ {DeidentificationMethodTag} : a[t] = b[t]
    /\ DeidentificationMethodTag \in DOMAIN a
          => /\ a[DeidentificationMethodTag].VR = b[DeidentificationMethodTag].VR
             /\ \E n \in 0 .. Len(ProvenanceText(a)) :
                 \E ta, tb \in Timestamps :
                    /\ ProvenanceText(a) =
                          SubSeq(ProvenanceText(a), 1, n)
                              \o method_text(procedure, ta)
                    /\ ProvenanceText(b) =
                          SubSeq(ProvenanceText(a), 1, n)
                              \o method_text(procedure, tb)

\* C13, amended: the two runs end the same way; when they fail they leave
\* identical records, and when they succeed the records are identical in every
\* element but the provenance element, whose texts differ at most in the time
\* of the entry the call added.
C13_SameButTimestamp ==
    (TwoRuns /\ NoRemap(records[1].given))
        => /\ records[1].outcome = records[2].outcome
           /\ IF records[1].outcome = Done
              THEN SameButTime(records[1].ds, records[2].ds)
              ELSE records[1].ds = records[2].ds

\* two successful runs on copies of a record with a kept element, by the two
\* engines, that read two different times
C13_Witness ==
    /\ TwoRuns
    /\ NoRemap(records[1].given)
    /\ records[1].outcome = Done
    /\ records[2].outcome = Done
    /\ ReferencedSOPClassUIDTag \in DOMAIN records[1].ds
    /\ records[1].ds # records[2].ds

\* the step applies the Remove action to an element whose tag the record does
\* not hold
RemovesAbsent ==
    /\ Len(visited') = Len(visited) + 1
    /\ visited'[Len(visited')].action = REMOVE
    /\ visited'[Len(visited')].tag \notin DOMAIN dataset

\* C14, as claimed: applying the Remove action to an element whose tag the
\* record does not hold leaves the record as it is and raises no error.
C14_RemoveAbsentIsNoOp ==
    [][RemovesAbsent => (dataset' = dataset /\ outcome' = outcome)]_vars

C16_GlobalConsistency ==
    /\ \A a, b \in issued :
          (a.engine = b.engine /\ a.original = b.original)
              => a.pseudonym = b.pseudonym
    /\ pc = "walk" => lock # 0

\* the second worker's record got a pseudonym for a value of which the first
\* worker's record, processed after it by the same engine, got one too
C16_Witness ==
    /\ records[2].runs = 1
    /\ lock = 1
    /\ \E a, b \in issued :
          /\ a.worker = 1 /\ b.worker = 2
          /\ a.engine = b.engine
          /\ a.original = b.original

\* the tags of the elements the callback was called on, in the order of the
\* calls
VisitedTags == [i \in 1 .. Len(visited) |-> visited[i].tag]

\* C17: a walk visits the elements the record held when the walk began in
\* ascending order of their tags, each once, however many of them earlier
\* visits removed: during the walk the tags visited and the tags still to
\* visit make up that list, a walk that is not aborted has visited all of it,
\* an aborted one a leading part of it, and the iteration raises no error.
C17_SnapshotWalk ==
    /\ pc = "walk" => VisitedTags \o taglist = Sorted(DOMAIN entry)
    /\ outcome = Done => VisitedTags = Sorted(DOMAIN entry)
    /\ (pc = "idle" /\ Called)
          => /\ Len(visited) <= Cardinality(DOMAIN entry)
             /\ VisitedTags = SubSeq(Sorted(DOMAIN entry), 1, Len(visited))
    /\ outcome.kind # "KeyError"

\* a walk over three elements that removed the first and the second and went
\* on to visit the third
C17_Witness ==
    /\ outcome = Done
    /\ Len(visited) = 3
    /\ visited[1].action = REMOVE
    /\ visited[2].action = REMOVE
    /\ visited[1].tag \notin DOMAIN dataset
    /\ visited[2].tag \notin DOMAIN dataset

\* the action resolved for the i-th element visited is one of the two replace
\* actions
Replaces(i) == visited[i].action \in {REPLACE, REPLACE_0}

\* C18: an element visited under Replace or Replace-with-zero-length stays in
\* the record with the placeholder VR_DUMMY_VALUES holds for its value
\* representation, the same under both actions; when the table holds none, the
\* call ends at that element in NotImplementedError and the element keeps its
\* value.
C18_Placeholder ==
    \A i \in 1 .. Len(visited) :
        Replaces(i) =>
            LET t == visited[i].tag
            IN  IF entry[t].VR \in DOMAIN VR_DUMMY_VALUES
                THEN (t # DeidentificationMethodTag \/ pc = "walk")
                        => /\ t \in DOMAIN dataset
                           /\ dataset[t].VR = entry[t].VR
                           /\ dataset[t].value = VR_DUMMY_VALUES[entry[t].VR]
                ELSE /\ i = Len(visited)
                     /\ pc = "idle"
                     /\ outcome.kind = "NotImplementedError"
                     /\ t \in DOMAIN dataset
                     /\ dataset[t] = entry[t]

\* a walk under Replace-with-zero-length that put the placeholder in the class
\* identifier and ended at an element of a value representation the table does
\* not hold
C18_Witness ==
    /\ Len(visited) >= 2
    /\ visited[1].action = REPLACE_0
    /\ dataset[visited[1].tag].value = VR_DUMMY_VALUES["UI"]
    /\ Replaces(Len(visited))
    /\ entry[visited[Len(visited)].tag].VR \notin DOMAIN VR_DUMMY_VALUES
    /\ outcome.kind = "NotImplementedError"

\* the walk ended at the element it visited last, in Reject or in an action
\* or value representation that is not implemented
Aborted ==
    /\ pc = "idle"
    /\ Failed
    /\ visited # <<>>

\* C19: a walk that ends in RejectedDICOMFileError or NotImplementedError at
\* one of its elements leaves the record partly changed: on every element
\* visited before that one its action has been applied, that element and
\* every element after it are as they were on entry, and no provenance
\* element has been written.
C19_PartialMutation ==
    Aborted =>
        /\ \A i \in 1 .. Len(visited) - 1 :
              Applied(visited[i].tag, visited[i].action)
        /\ \A t \in DOMAIN entry :
              (\A i \in 1 .. Len(visited) - 1 : visited[i].tag # t)
                  => t \in DOMAIN dataset /\ dataset[t] = entry[t]
        /\ DOMAIN dataset \subseteq DOMAIN entry
        /\ (DeidentificationMethodTag \in DOMAIN dataset
               /\ \A i \in 1 .. Len(visited) - 1 :
                      visited[i].tag # DeidentificationMethodTag)
              => dataset[DeidentificationMethodTag]
                    = entry[DeidentificationMethodTag]

\* a walk over three elements rejected at the second: the first is gone, the
\* second and the third are as they were
C19_Witness ==
    /\ Aborted
    /\ outcome.kind = "RejectedDICOMFileError"
    /\ Len(visited) = 2
    /\ Cardinality(DOMAIN entry) = 3
    /\ visited[1].action = REMOVE
    /\ dataset # entry
    /\ Cardinality(DOMAIN dataset) = 2

\* the step is a visit of an element, under the action it logs
Visits == Len(visited') = Len(visited) + 1
VisitAction == visited'[Len(visited')].action
VisitTag == visited'[Len(visited')].tag

\* the step adds to the store of engine e the one key v, and nothing else
AddsKey(e, v) ==
    /\ v \notin DOMAIN uid_map[e]
    /\ DOMAIN uid_map'[e] = DOMAIN uid_map[e] \cup {v}
    /\ \A o \in Engines \ {e} : uid_map'[o] = uid_map[o]

\* C20: the store of an engine holds nothing until generate_uid has returned
\* an identifier to the engine, and one entry for each identifier returned;
\* no step, in a call that succeeds or in one that fails, removes an entry or
\* changes its pseudonym; a step adds an entry only by applying the UID action
\* to an element whose value the store does not hold, and a visit under any
\* other action leaves every store as it was.
C20_StoreOnlyGrows ==
    /\ [](\A e \in Engines : Cardinality(DOMAIN uid_map[e]) = Minted(e))
    /\ [][\A e \in Engines : \A v \in DOMAIN uid_map[e] :
            /\ v \in DOMAIN uid_map'[e]
            /\ uid_map'[e][v] = uid_map[e][v]]_vars
    /\ [][uid_map' # uid_map
            => /\ Visits
               /\ VisitAction = UID
               /\ AddsKey(self, dataset[VisitTag].value)]_vars
    /\ [][(Visits /\ VisitAction # UID) => uid_map' = uid_map]_vars

\* a call that remapped a value the store did not hold and then ended in
\* RejectedDICOMFileError: the entry is in the store
C20_Witness ==
    /\ outcome.kind = "RejectedDICOMFileError"
    /\ \E a \in remapped :
          /\ ~a.known
          /\ a.original \in DOMAIN uid_map[a.engine]

\* the step is a call that ends before the walk begins
EndsInResolve == runs' = runs + 1 /\ pc' = "idle"

\* C21: a call on a record whose class matches no class rule, under a global
\* default other than Keep, ends in RejectedDICOMFileError or
\* NotImplementedError with no element visited; the step that ends a call
\* before the walk leaves every element of the record, its provenance text
\* and the store of every engine as they were.
C21_ResolveFailsClean ==
    /\ []((Called /\ Unmatched(entry)
              /\ Get(procedure, "default", REJECT) # KEEP)
            => /\ pc = "idle"
               /\ Failed
               /\ visited = <<>>
               /\ remapped = {}
               /\ dataset = entry)
    /\ [][EndsInResolve
            => /\ outcome'.kind # "Done"
               /\ visited' = <<>>
               /\ dataset' = dataset
               /\ ProvenanceText(dataset') = ProvenanceText(dataset)
               /\ uid_map' = uid_map
               /\ minted' = minted]_vars

\* an unmatched record with a provenance text rejected in the resolution of
\* its class, by an engine whose store holds an entry of an earlier call
C21_Witness ==
    /\ Called
    /\ Unmatched(entry)
    /\ outcome.kind = "RejectedDICOMFileError"
    /\ visited = <<>>
    /\ ProvenanceText(entry) # <<>>
    /\ uid_map[self] # <<>>

\* the record matches a class procedure that names no default
MatchedNoDefault ==
    /\ Matched(entry)
    /\ "default" \notin DOMAIN procedure.sopClass[ClassOf(entry)]

\* C22: in a call on a record that matches a class procedure without a
\* default, every element visited that has no tag rule is resolved to Remove
\* and is removed, whatever the global default is; with no tag rule at all the
\* call is not rejected and succeeds with every element of the record
\* removed, the provenance element being all that is left.
C22_MissingClassDefaultRemoves ==
    (Called /\ MatchedNoDefault) =>
        /\ \A i \in 1 .. Len(visited) :
              ~HasTagRule(entry, visited[i].tag)
                  => /\ visited[i].action = REMOVE
                     /\ (visited[i].tag # DeidentificationMethodTag
                            \/ pc = "walk")
                           => visited[i].tag \notin DOMAIN dataset
        /\ procedure.sopClass[ClassOf(entry)].tags = <<>>
              => /\ outcome \in {NoOutcome, Done}
                 /\ outcome = Done
                       => DOMAIN dataset = {DeidentificationMethodTag}

\* a matched record of a class without default or tag rule, under a global
\* default of Reject: the call succeeded and removed both identifiers
C22_Witness ==
    /\ Called
    /\ MatchedNoDefault
    /\ procedure.sopClass[ClassOf(entry)].tags = <<>>
    /\ Get(procedure, "default", KEEP) = REJECT
    /\ ReferencedSOPClassUIDTag \in DOMAIN entry
    /\ outcome = Done
    /\ DOMAIN dataset = {DeidentificationMethodTag}

====
